---- MODULE Spec2Model ----
(***************************************************************************)
(* Model of src/evaluate.py: the Evaluator class.                          *)
(*                                                                         *)
(* Tensors and arrays are sequences.  An embedding is an integer (a        *)
(* one-dimensional embedding space).  Rates and areas are exact rationals  *)
(* <<numerator, denominator>>; NaN is the pair <<0, 0>>.  The library      *)
(* routines the file calls (roc_curve, auc, KernelDensity, pyplot) are     *)
(* modelled by what they compute, in exact arithmetic: the rounding of      *)
(* floating-point sums is not modelled.                                    *)
(***************************************************************************)
EXTENDS Integers, Sequences, FiniteSets, TLC

\* ------------------------------------------------------------------ bounds
\* Samples a test loader yields in total, over all of its batches.
MaxSamples == 3
\* evaluate() / plot_roc() calls made on one Evaluator.
MaxCalls == 2
\* Length of the score and label arrays handed to calculate_roc directly.
MaxLen == 3
\* Scores handed to calculate_roc directly are 0..MaxScore.
MaxScore == 2

\* ------------------------------------------------------------------ state
VARIABLES
    loader,       \* self.test_data_loader: the batches it yields, in order
    pathology,    \* self.pathology
    output_dir,   \* self.output_dir
    gde,          \* self.gde: the KernelDensity estimator
    figure,       \* pyplot's current figure (module-global state of plt)
    dirs,         \* directories that exist in the file system
    files,        \* file system: the files that exist, path -> image
    io,           \* console lines and file writes of the call in progress
    pc,           \* position of the caller / of the running method
    it,           \* number of batches the loader's iterator has yielded
    labels,       \* evaluate(): local labels; calculate_roc(): argument
    embeds,       \* evaluate(): local embeds
    scores,       \* evaluate(): local scores; calculate_roc(): argument
    dice_score,   \* evaluate(): local dice_score
    ap_score,     \* evaluate(): local ap_score
    roc,          \* evaluate(): (fpr, tpr, roc_auc); plot_roc(): those arguments
    plotArgs,     \* plot_roc(): its arguments pathology and save_path
    via,          \* who called the running method: "evaluate" or "caller"
    ret,          \* what the call handed to its caller: a value or a raise
    fetched,      \* history: indexes of the batches fetched by this call
    fits,         \* history: gde.fit calls made by this call
    scored,       \* history: score_samples calls made by this call
    calls,        \* history: calls started on this Evaluator
    plotted       \* history: <<save_path, pathology>> of the saves that succeeded

vars == <<loader, pathology, output_dir, gde, figure, dirs, files, io, pc, it,
          labels, embeds, scores, dice_score, ap_score, roc, plotArgs, via, ret,
          fetched, fits, scored, calls, plotted>>

selfFields == <<loader, pathology, output_dir>>
locals == <<it, labels, embeds, scores, dice_score, ap_score, roc, plotArgs, via>>
history == <<fetched, fits, scored>>

\* ------------------------------------------------------------------ values
None == "None"
NaN == <<0, 0>>
Pathologies == {"p1", "p2"}
Dirs == {"./results", "./out"}
\* Test data: a data value and its ground-truth label.
DataValues == {0, 1}
LabelValues == {0, 1}
Samples == [data : DataValues, label : LabelValues]

\* ------------------------------------------------------------ arithmetic
Abs(n) == IF n < 0 THEN -n ELSE n

RECURSIVE Gcd(_, _)
Gcd(a, b) == IF b = 0 THEN a ELSE Gcd(b, a % b)

\* A rational in lowest terms with a positive denominator.
Norm(r) ==
    LET g == Gcd(Abs(r[1]), Abs(r[2])) IN
    IF r[2] = 0 THEN NaN
    ELSE IF r[2] < 0 THEN <<(0 - r[1]) \div g, (0 - r[2]) \div g>>
    ELSE <<r[1] \div g, r[2] \div g>>

IsNaN(r) == r[2] = 0
RatAdd(a, b) == IF IsNaN(a) \/ IsNaN(b) THEN NaN
                ELSE Norm(<<a[1] * b[2] + b[1] * a[2], a[2] * b[2]>>)
RatSub(a, b) == IF IsNaN(a) \/ IsNaN(b) THEN NaN
                ELSE Norm(<<a[1] * b[2] - b[1] * a[2], a[2] * b[2]>>)
RatMul(a, b) == IF IsNaN(a) \/ IsNaN(b) THEN NaN
                ELSE Norm(<<a[1] * b[1], a[2] * b[2]>>)
\* Comparisons with NaN are false, as in IEEE arithmetic.
RatLt(a, b) == ~IsNaN(a) /\ ~IsNaN(b) /\ a[1] * b[2] < b[1] * a[2]
RatLeq(a, b) == ~IsNaN(a) /\ ~IsNaN(b) /\ a[1] * b[2] <= b[1] * a[2]
Zero == <<0, 1>>
One == <<1, 1>>
Half == <<1, 2>>

Max(S) == CHOOSE x \in S : \A y \in S : y <= x

RECURSIVE SortDesc(_)
SortDesc(S) == IF S = {} THEN <<>>
               ELSE LET m == Max(S) IN <<m>> \o SortDesc(S \ {m})

Reverse(s) == [i \in 1..Len(s) |-> s[Len(s) + 1 - i]]

RECURSIVE Flatten(_)
Flatten(ss) == IF ss = <<>> THEN <<>> ELSE Head(ss) \o Flatten(Tail(ss))

\* --------------------------------------------------- sklearn.metrics, as called
\* _binary_clf_curve: one point per distinct score, thresholds decreasing; at
\* each, the positives (tps) and negatives (fps) scoring at or above it.
BinaryClfCurve(y_true, y_score) ==
    LET th == SortDesc({y_score[i] : i \in DOMAIN y_score})
        at(k, pos) == Cardinality({i \in DOMAIN y_score :
                          /\ y_score[i] >= th[k]
                          /\ (y_true[i] = 1) = pos})
    IN  [fps |-> [k \in 1..Len(th) |-> at(k, FALSE)],
         tps |-> [k \in 1..Len(th) |-> at(k, TRUE)]]

\* drop_intermediate=True (the default): with more than two points, keep the
\* first, the last, and those where the second difference of fps or tps is not 0.
OptimalIdxs(fps, tps) ==
    LET n == Len(fps)
        d2(s, k) == s[k + 1] - 2 * s[k] + s[k - 1]
        keep == {k \in 1..n : k = 1 \/ k = n \/ d2(fps, k) # 0 \/ d2(tps, k) # 0}
    IN  IF n > 2 THEN Reverse(SortDesc(keep)) ELSE [k \in 1..n |-> k]

\* fps / fps[-1]; all NaN when the class is absent (fps[-1] <= 0).
Rates(counts) ==
    LET total == counts[Len(counts)] IN
    [k \in 1..Len(counts) |->
        IF total <= 0 THEN NaN ELSE Norm(<<counts[k], total>>)]

\* Variants of RocCurve: the two rates exchanged, and no origin added.
RocCurveSwapped(y_true, y_score) ==
    LET c == BinaryClfCurve(y_true, y_score)
        idx == OptimalIdxs(c.fps, c.tps)
        fps == <<0>> \o [j \in 1..Len(idx) |-> c.fps[idx[j]]]
        tps == <<0>> \o [j \in 1..Len(idx) |-> c.tps[idx[j]]]
    IN  [fpr |-> Rates(tps), tpr |-> Rates(fps)]

RocCurveNoOrigin(y_true, y_score) ==
    LET c == BinaryClfCurve(y_true, y_score)
        idx == OptimalIdxs(c.fps, c.tps)
        fps == [j \in 1..Len(idx) |-> c.fps[idx[j]]]
        tps == [j \in 1..Len(idx) |-> c.tps[idx[j]]]
    IN  [fpr |-> Rates(fps), tpr |-> Rates(tps)]

\* roc_curve(y_true, y_score): the curve starts at an added origin.
RocCurve(y_true, y_score) ==
    LET c == BinaryClfCurve(y_true, y_score)
        idx == OptimalIdxs(c.fps, c.tps)
        fps == <<0>> \o [j \in 1..Len(idx) |-> c.fps[idx[j]]]
        tps == <<0>> \o [j \in 1..Len(idx) |-> c.tps[idx[j]]]
    IN  [fpr |-> Rates(fps), tpr |-> Rates(tps)]

\* numpy trapz(y, x): the sum of dx * (y[i+1] + y[i]) / 2.
RECURSIVE TrapzFrom(_, _, _)
TrapzFrom(y, x, i) ==
    IF i >= Len(x) THEN Zero
    ELSE RatAdd(RatMul(RatSub(x[i + 1], x[i]), RatMul(RatAdd(y[i + 1], y[i]), Half)),
                TrapzFrom(y, x, i + 1))

Trapz(y, x) == TrapzFrom(y, x, 1)

\* auc(x, y) raises ValueError with fewer than two points or when x is neither
\* non-decreasing nor non-increasing.
AucRaises(x, y) ==
    \/ Len(x) < 2
    \/ /\ \E i \in 1..(Len(x) - 1) : RatLt(x[i + 1], x[i])
       /\ ~(\A i \in 1..(Len(x) - 1) : RatLeq(x[i + 1], x[i]))

\* auc(x, y) otherwise: direction * trapz(y, x), direction -1 for a decreasing x.
Auc(x, y) ==
    IF \E i \in 1..(Len(x) - 1) : RatLt(x[i + 1], x[i])
    THEN RatSub(Zero, Trapz(y, x))
    ELSE Trapz(y, x)

\* --------------------------------------------------- Evaluator.calculate_roc
Line(label, value) == [op |-> "print", label |-> label, value |-> value]

\* Variants of CalculateRocPrints: no line, and the line twice.
CalculateRocPrintsNothing(roc_auc) == <<>>

CalculateRocPrintsTwice(roc_auc) == <<Line("ROC AUC:", roc_auc), Line("ROC AUC:", roc_auc)>>

\* What calculate_roc prints: the AUC, labelled, with three decimals.
CalculateRocPrints(roc_auc) == <<Line("ROC AUC:", roc_auc)>>

\* Line 95: calculate_roc raises when auc does.
CalculateRocRaises(scores_, labels_) ==
    LET c == RocCurve(labels_, scores_) IN AucRaises(c.fpr, c.tpr)

\* What calculate_roc returns.
CalculateRocValue(scores_, labels_) ==
    LET c == RocCurve(labels_, scores_) IN <<c.fpr, c.tpr, Auc(c.fpr, c.tpr)>>

\* ------------------------------------------------------------- the model
\* model.embeds: the reference embeddings the trained model stores.
ModelEmbeds == <<0, 1>>

\* model(data): the embedding of each sample of the batch, and an auxiliary
\* output the evaluator drops.
ModelForward(batch) ==
    [embed |-> [i \in DOMAIN batch |-> 3 * batch[i].data],
     aux |-> [i \in DOMAIN batch |-> batch[i].data]]

\* ------------------------------------------------- sklearn KernelDensity
\* KernelDensity(kernel="gaussian", bandwidth=1), not yet fitted.
NewKernelDensity == [fitted |-> FALSE, data |-> <<>>]

\* fit(X) replaces whatever was fitted before.
KernelDensityFit(X) == [fitted |-> TRUE, data |-> X]

\* exp(-d^2 / 2) in thousandths: the Gaussian kernel at distance d, bandwidth 1.
GaussianKernel(d) ==
    IF d = 0 THEN 1000 ELSE IF d = 1 THEN 607 ELSE IF d = 2 THEN 135
    ELSE IF d = 3 THEN 11 ELSE 0

RECURSIVE KernelSum(_, _)
KernelSum(data, x) ==
    IF data = <<>> THEN 0
    ELSE GaussianKernel(Abs(x - Head(data))) + KernelSum(Tail(data), x)

\* score_samples(X): the log-density of each row under the fitted data, here on
\* an order-preserving integer scale (the kernel sum, not its logarithm).
ScoreSamples(g, X) == [i \in DOMAIN X |-> KernelSum(g.data, X[i])]

\* Evaluator._predict: the negated log-density.
Predict(g, embeddings) ==
    LET s == ScoreSamples(g, embeddings) IN [i \in DOMAIN s |-> 0 - s[i]]

\* ------------------------------------------------------------ the metrics
\* Dice(average="micro")(preds, target) and average_precision_score(y_true,
\* y_score) are values of the libraries, kept symbolic.
DiceMetric(preds, target) == [metric |-> "Dice", preds |-> preds, target |-> target]
AveragePrecision(y_true, y_score) ==
    [metric |-> "average_precision", y_true |-> y_true, y_score |-> y_score]

\* ------------------------------------------------------ Evaluator.plot_roc
NoFigure == [title |-> <<>>, lines |-> <<>>, legend |-> <<>>, axes |-> <<>>]

\* Lines 101-108: title, curve, legend, baseline, limits and axis labels are
\* drawn on pyplot's current figure, whatever it already holds.
DrawRoc(fig, fpr, tpr, roc_auc, pathology_) ==
    LET curve == [x |-> fpr, y |-> tpr, fmt |-> "b", label |-> <<"AUC =", roc_auc>>]
        baseline == [x |-> <<0, 1>>, y |-> <<0, 1>>, fmt |-> "r--", label |-> <<>>]
        withCurve == Append(fig.lines, curve)
    IN  [title |-> <<"ROC curve:", pathology_>>,
         lines |-> Append(withCurve, baseline),
         legend |-> [i \in 1..Len(SelectSeq(withCurve, LAMBDA l : l.label # <<>>))
                        |-> SelectSeq(withCurve, LAMBDA l : l.label # <<>>)[i].label],
         axes |-> <<"xlim 0 1", "ylim 0 1", "True Positive Rate", "False Positive Rate">>]

\* Variant of ImagePath: the pathology is left out of the file name.
ImagePathFlat(save_path, pathology_) == <<save_path, <<"roc", ".png">>>>

\* Line 110: Path(save_path) / f"roc_{pathology}.png"
ImagePath(save_path, pathology_) == <<save_path, <<"roc_", pathology_, ".png">>>>

\* Line 111: savefig raises when the directory of the path does not exist.
SavefigRaises(path) == path[1] \notin dirs

\* Line 111: savefig creates or overwrites the file at the path with the figure
\* as drawn so far.
Savefig(fs, path, fig) ==
    [q \in DOMAIN fs \cup {path} |-> IF q = path THEN [image |-> fig] ELSE fs[q]]

\* Line 112: plt.close() discards the current figure.
PlotRocAfterSave(fig) == NoFigure

Write(path) == [op |-> "write", path |-> path]

\* ------------------------------------------------------------ test loaders
BatchesOfLen(k) == [1..k -> Samples]

\* The loaders yielding at most n samples in all, in non-empty batches.
RECURSIVE LoadersUpTo(_)
LoadersUpTo(n) ==
    {<<>>} \cup UNION {{<<b>> \o l : b \in BatchesOfLen(k), l \in LoadersUpTo(n - k)}
                        : k \in 1..n}

BatchLabels(batch) == [i \in DOMAIN batch |-> batch[i].label]

\* ---------------------------------------------------- Evaluator.__init__
InitEvaluator(loader_, pathology_, output_dir_) ==
    /\ loader = loader_
    /\ pathology = pathology_
    /\ output_dir = output_dir_
    /\ gde = NewKernelDensity

\* Nothing has been called, drawn, printed or written yet.
InitRest ==
    /\ figure = NoFigure
    /\ files = << >>
    /\ io = <<>>
    /\ it = 0
    /\ embeds = None
    /\ dice_score = None
    /\ ap_score = None
    /\ ret = None
    /\ fetched = <<>>
    /\ fits = 0
    /\ scored = 0
    /\ calls = 0
    /\ plotted = {}

Init ==
    /\ \E l \in LoadersUpTo(MaxSamples) : InitEvaluator(l, "p1", "./results")
    /\ dirs \in SUBSET {"./results"}
    /\ InitRest
    /\ pc = "idle"
    /\ via = "caller"
    /\ labels = None /\ scores = None /\ roc = None /\ plotArgs = None

\* ------------------------------------------------------ Evaluator.evaluate
Ended == pc \in {"idle", "returned", "raised"}

\* A raise is caught nowhere: it leaves the running method and evaluate(), whose
\* frames and locals are gone, and the caller gets the exception as raised.
RaiseFrom(step, error) ==
    /\ pc' = "raised"
    /\ ret' = [kind |-> "raise", error |-> error, at |-> step]
    /\ labels' = None /\ embeds' = None /\ scores' = None
    /\ dice_score' = None /\ ap_score' = None /\ roc' = None
    /\ plotArgs' = None /\ via' = "caller"

\* The caller calls evaluate(): lines 51-53.
Evaluate ==
    /\ Ended
    /\ calls < MaxCalls
    /\ calls' = calls + 1
    /\ pc' = "loop"
    /\ via' = "caller"
    /\ labels' = <<>> /\ embeds' = <<>>
    /\ it' = 0
    /\ scores' = None /\ dice_score' = None /\ ap_score' = None /\ roc' = None
    /\ plotArgs' = None
    /\ ret' = None
    /\ io' = <<>>
    /\ fetched' = <<>> /\ fits' = 0 /\ scored' = 0
    /\ UNCHANGED <<selfFields, gde, figure, dirs, files, plotted>>

\* Variant of LoopBody: the labels of the batch go to the front of the list.
LoopBodyPrepend ==
    /\ pc = "loop"
    /\ it < Len(loader)
    /\ LET batch == loader[it + 1] IN
        /\ embeds' = Append(embeds, ModelForward(batch).embed)
        /\ labels' = <<BatchLabels(batch)>> \o labels
    /\ it' = it + 1
    /\ fetched' = Append(fetched, it + 1)
    /\ UNCHANGED <<selfFields, gde, figure, dirs, files, io, pc, scores, dice_score,
                   ap_score, roc, plotArgs, via, ret, fits, scored, calls, plotted>>

\* Lines 54-58: the next batch is fetched, embedded and accumulated.
LoopBody ==
    /\ pc = "loop"
    /\ it < Len(loader)
    /\ LET batch == loader[it + 1] IN
        /\ embeds' = Append(embeds, ModelForward(batch).embed)
        /\ labels' = Append(labels, BatchLabels(batch))
    /\ it' = it + 1
    /\ fetched' = Append(fetched, it + 1)
    /\ UNCHANGED <<selfFields, gde, figure, dirs, files, io, pc, scores, dice_score,
                   ap_score, roc, plotArgs, via, ret, fits, scored, calls, plotted>>

\* Line 55: the batch is fetched and the model raises on it.
ModelRaises ==
    /\ pc = "loop"
    /\ it < Len(loader)
    /\ it' = it + 1
    /\ fetched' = Append(fetched, it + 1)
    /\ RaiseFrom("model", "ModelError")
    /\ UNCHANGED <<selfFields, gde, figure, dirs, files, io, fits, scored, calls, plotted>>

\* Line 54: the loader is exhausted.
LoopExit ==
    /\ pc = "loop"
    /\ it = Len(loader)
    /\ pc' = "cat"
    /\ UNCHANGED <<selfFields, gde, figure, dirs, files, io, locals, ret, history,
                   calls, plotted>>

\* Variant of Concat: an empty list is concatenated to an empty tensor.
ConcatUnchecked ==
    /\ pc = "cat"
    /\ labels' = Flatten(labels)
    /\ embeds' = Flatten(embeds)
    /\ pc' = "fit"
    /\ UNCHANGED <<it, scores, dice_score, ap_score, roc, plotArgs, via, ret>>
    /\ UNCHANGED <<selfFields, gde, figure, dirs, files, io, history, calls, plotted>>

\* Lines 60-61: torch.cat of the accumulated batches; it raises on an empty list.
Concat ==
    /\ pc = "cat"
    /\ IF labels = <<>>
       THEN /\ RaiseFrom("cat", "RuntimeError")
            /\ UNCHANGED it
       ELSE /\ labels' = Flatten(labels)
            /\ embeds' = Flatten(embeds)
            /\ pc' = "fit"
            /\ UNCHANGED <<it, scores, dice_score, ap_score, roc, plotArgs, via, ret>>
    /\ UNCHANGED <<selfFields, gde, figure, dirs, files, io, history, calls, plotted>>

\* Variant of Fit: the estimator is fitted on the test embeddings.
FitOnTestEmbeds ==
    /\ pc = "fit"
    /\ gde' = KernelDensityFit(embeds)
    /\ fits' = fits + 1
    /\ pc' = "predict"
    /\ UNCHANGED <<selfFields, figure, dirs, files, io, locals, ret, fetched, scored,
                   calls, plotted>>

\* Variant of Fit: a fit made by an earlier call is reused.
FitUnlessFitted ==
    /\ pc = "fit"
    /\ IF gde.fitted
       THEN UNCHANGED <<gde, fits>>
       ELSE /\ gde' = KernelDensityFit(ModelEmbeds)
            /\ fits' = fits + 1
    /\ pc' = "predict"
    /\ UNCHANGED <<selfFields, figure, dirs, files, io, locals, ret, fetched, scored,
                   calls, plotted>>

\* Line 63: the estimator is fitted.
Fit ==
    /\ pc = "fit"
    /\ gde' = KernelDensityFit(ModelEmbeds)
    /\ fits' = fits + 1
    /\ pc' = "predict"
    /\ UNCHANGED <<selfFields, figure, dirs, files, io, locals, ret, fetched, scored,
                   calls, plotted>>

\* Line 64: the test embeddings are scored.
PredictStep ==
    /\ pc = "predict"
    /\ gde.fitted
    /\ scores' = Predict(gde, embeds)
    /\ scored' = scored + 1
    /\ pc' = "dice"
    /\ UNCHANGED <<selfFields, gde, figure, dirs, files, io, it, labels, embeds,
                   dice_score, ap_score, roc, plotArgs, via, ret, fetched, fits,
                   calls, plotted>>

\* Lines 66-68: the Dice score is computed and printed.
DiceStep ==
    /\ pc = "dice"
    /\ dice_score' = DiceMetric(scores, labels)
    /\ io' = Append(io, Line("Dice score:", dice_score'))
    /\ pc' = "ap"
    /\ UNCHANGED <<selfFields, gde, figure, dirs, files, it, labels, embeds, scores,
                   ap_score, roc, plotArgs, via, ret, history, calls, plotted>>

\* Lines 70-71: the average precision is computed and printed.
ApStep ==
    /\ pc = "ap"
    /\ ap_score' = AveragePrecision(labels, scores)
    /\ io' = Append(io, Line("Average precision:", ap_score'))
    /\ pc' = "roc"
    /\ UNCHANGED <<selfFields, gde, figure, dirs, files, it, labels, embeds, scores,
                   dice_score, roc, plotArgs, via, ret, history, calls, plotted>>

\* Line 73: evaluate() calls calculate_roc on its scores and labels.
CallCalculateRoc ==
    /\ pc = "roc"
    /\ pc' = "calculate_roc"
    /\ via' = "evaluate"
    /\ UNCHANGED <<selfFields, gde, figure, dirs, files, io, it, labels, embeds,
                   scores, dice_score, ap_score, roc, plotArgs, ret, history, calls,
                   plotted>>

\* Lines 94-98: the body of calculate_roc(scores, labels), the arguments being
\* the variables scores and labels; it returns to evaluate() or to the caller.
CalculateRoc ==
    /\ pc = "calculate_roc"
    /\ IF CalculateRocRaises(scores, labels)
       THEN /\ RaiseFrom("roc", "ValueError")
            /\ UNCHANGED io
       ELSE LET value == CalculateRocValue(scores, labels) IN
            /\ io' = io \o CalculateRocPrints(value[3])
            /\ IF via = "evaluate"
               THEN /\ roc' = value
                    /\ pc' = "plot"
                    /\ UNCHANGED <<ret, labels, scores>>
               ELSE /\ ret' = [kind |-> "return", value |-> value]
                    /\ pc' = "returned"
                    /\ UNCHANGED <<roc, labels, scores>>
            /\ UNCHANGED <<embeds, dice_score, ap_score, plotArgs, via>>
    /\ UNCHANGED <<selfFields, gde, figure, dirs, files, it, history, calls, plotted>>

\* A library call of lines 63-73 raises (a shape mismatch, labels that are not
\* binary, ...): nothing of the line it is on takes effect.
LibraryRaises ==
    /\ pc \in {"fit", "predict", "dice", "ap", "roc"}
    /\ RaiseFrom(pc, "LibraryError")
    /\ UNCHANGED <<selfFields, gde, figure, dirs, files, io, it, history, calls, plotted>>

\* Line 74: evaluate() calls plot_roc with its own pathology and output_dir.
CallPlotRoc ==
    /\ pc = "plot"
    /\ pc' = "plot_roc"
    /\ via' = "evaluate"
    /\ plotArgs' = [pathology |-> pathology, save_path |-> output_dir]
    /\ UNCHANGED <<selfFields, gde, figure, dirs, files, io, it, labels, embeds,
                   scores, dice_score, ap_score, roc, ret, history, calls, plotted>>

\* Lines 100-112: the body of plot_roc.  It draws on the current figure, saves
\* it and closes it; a failing save raises out of plot_roc, skipping the close.
PlotRoc ==
    /\ pc = "plot_roc"
    /\ LET path == ImagePath(plotArgs.save_path, plotArgs.pathology)
           drawn == DrawRoc(figure, roc[1], roc[2], roc[3], plotArgs.pathology)
       IN  IF SavefigRaises(path)
           THEN /\ figure' = drawn
                /\ RaiseFrom("savefig", "FileNotFoundError")
                /\ UNCHANGED <<files, io, plotted>>
           ELSE /\ files' = Savefig(files, path, drawn)
                /\ io' = Append(io, Write(path))
                /\ plotted' = plotted \cup {<<plotArgs.save_path, plotArgs.pathology>>}
                /\ figure' = PlotRocAfterSave(drawn)
                /\ IF via = "evaluate"
                   THEN /\ pc' = "return"
                        /\ UNCHANGED <<roc, ret>>
                   ELSE /\ pc' = "returned"
                        /\ roc' = None
                        /\ ret' = [kind |-> "return", value |-> None]
                /\ UNCHANGED <<labels, embeds, scores, dice_score, ap_score,
                               plotArgs, via>>
    /\ UNCHANGED <<selfFields, gde, dirs, it, history, calls>>

\* Line 75: the triple is returned and the frame's locals are gone.
Return ==
    /\ pc = "return"
    /\ ret' = [kind |-> "return", value |-> <<roc[3], dice_score, ap_score>>]
    /\ pc' = "returned"
    /\ via' = "caller"
    /\ labels' = None /\ embeds' = None /\ scores' = None
    /\ dice_score' = None /\ ap_score' = None /\ roc' = None /\ plotArgs' = None
    /\ UNCHANGED <<selfFields, gde, figure, dirs, files, io, it, history, calls, plotted>>

\* The caller creates a directory between two calls.
MakeDir ==
    /\ Ended
    /\ \E d \in Dirs \ dirs : dirs' = dirs \cup {d}
    /\ UNCHANGED <<selfFields, gde, figure, files, io, pc, locals, ret, history,
                   calls, plotted>>

Next ==
    \/ Evaluate
    \/ LoopBody
    \/ ModelRaises
    \/ LoopExit
    \/ Concat
    \/ Fit
    \/ PredictStep
    \/ DiceStep
    \/ ApStep
    \/ CallCalculateRoc
    \/ CalculateRoc
    \/ LibraryRaises
    \/ CallPlotRoc
    \/ PlotRoc
    \/ Return
    \/ MakeDir

\* evaluate() called on one Evaluator, up to MaxCalls times.
Spec == Init /\ [][Next]_vars

\* ------------------------------------------- calculate_roc called directly
\* The score and label arrays a caller hands to calculate_roc.
RocInputs ==
    UNION {[1..n -> 0..MaxScore] \X [1..n -> LabelValues] : n \in 1..MaxLen}

InitRoc ==
    /\ InitEvaluator(<<>>, "p1", "./results")
    /\ dirs = {"./results"}
    /\ InitRest
    /\ pc = "calculate_roc"
    /\ via = "caller"
    /\ \E a \in RocInputs : scores = a[1] /\ labels = a[2]
    /\ roc = None /\ plotArgs = None

NextRoc == CalculateRoc

SpecRoc == InitRoc /\ [][NextRoc]_vars

\* ------------------------------------------------ plot_roc called directly
\* Curves a caller hands to plot_roc: a perfect and an inverted ranking.
Curves == {CalculateRocValue(<<0, 1>>, <<0, 1>>), CalculateRocValue(<<1, 0>>, <<0, 1>>)}

InitPlot ==
    /\ InitEvaluator(<<>>, "p1", "./results")
    /\ dirs \in SUBSET Dirs
    /\ InitRest
    /\ pc = "idle"
    /\ via = "caller"
    /\ labels = None /\ scores = None /\ roc = None /\ plotArgs = None

\* The caller calls plot_roc(fpr, tpr, roc_auc, pathology, save_path).
PlotRocCall ==
    /\ Ended
    /\ calls < MaxCalls
    /\ calls' = calls + 1
    /\ \E c \in Curves, p \in Pathologies, d \in Dirs :
        /\ roc' = c
        /\ plotArgs' = [pathology |-> p, save_path |-> d]
    /\ pc' = "plot_roc"
    /\ via' = "caller"
    /\ ret' = None
    /\ io' = <<>>
    /\ UNCHANGED <<selfFields, gde, figure, dirs, files, it, labels, embeds, scores,
                   dice_score, ap_score, history, plotted>>

NextPlot ==
    \/ PlotRocCall
    \/ PlotRoc
    \/ MakeDir

SpecPlot == InitPlot /\ [][NextPlot]_vars

\* =================================================================== claims
\* ------------------------------------------------------ helpers of the claims
BothClasses(l) == (\E i \in DOMAIN l : l[i] = 1) /\ (\E i \in DOMAIN l : l[i] = 0)

PerfectlySeparated(s, l) ==
    \A i, j \in DOMAIN l : (l[i] = 1 /\ l[j] = 0) => s[i] > s[j]

NonDecreasing(r) == \A i \in 1..(Len(r) - 1) : RatLeq(r[i], r[i + 1])

\* calculate_roc, called directly, has returned its triple.
RocReturned == pc = "returned" /\ ret.kind = "return"

C9_CurveShape ==
    (pc = "returned" /\ BothClasses(labels)) =>
        /\ ret.kind = "return"
        /\ LET fpr == ret.value[1]
               tpr == ret.value[2]
           IN  /\ Len(fpr) = Len(tpr)
               /\ Len(fpr) >= 2
               /\ fpr[1] = Zero /\ tpr[1] = Zero
               /\ NonDecreasing(fpr) /\ NonDecreasing(tpr)
               /\ ret.value[3] = Trapz(tpr, fpr)

\* C9 witness: a returned curve of at least three points for inputs with both
\* classes, not a perfect ranking.
C9_Witness ==
    /\ RocReturned
    /\ BothClasses(labels)
    /\ Len(ret.value[1]) >= 3
    /\ ret.value[3] # One
    /\ ret.value[3] # Zero

\* C5 as stated: the body of calculate_roc changes no Evaluator state and
\* produces no console or file output.
C5_Original ==
    [][pc = "calculate_roc" =>
          /\ UNCHANGED <<selfFields, gde, figure, dirs, files>>
          /\ io' = io]_vars

\* C5 as amended: calculate_roc changes no Evaluator state, draws nothing and
\* writes no file; it returns the triple of its arguments' ROC curve and prints
\* exactly one console line, "ROC AUC:" with the AUC it returns.
C5_PrintsOneLine ==
    [][pc = "calculate_roc" =>
          /\ UNCHANGED <<selfFields, gde, figure, dirs, files, scores, labels>>
          /\ pc' = "returned"
          /\ ret'.kind = "return"
          /\ ret'.value = <<RocCurve(labels, scores).fpr, RocCurve(labels, scores).tpr,
                            Trapz(RocCurve(labels, scores).tpr, RocCurve(labels, scores).fpr)>>
          /\ io' = Append(io, [op |-> "print", label |-> "ROC AUC:",
                               value |-> ret'.value[3]])]_vars

\* C5 witness: a direct call has returned, and its one console line is there.
C5_Witness ==
    /\ RocReturned
    /\ Len(io) = 1
    /\ io[1].op = "print" /\ io[1].label = "ROC AUC:"
    /\ io[1].value = ret.value[3]

\* ------------------------------------------------------- claims on evaluate()
Upto(n) == [i \in 1..n |-> i]

\* Positions of evaluate() after the loop, after the concatenation, after the
\* fit and after the scoring, up to the return statement.
AfterScoring == {"dice", "ap", "roc", "calculate_roc", "plot", "plot_roc", "return"}
AfterFit == AfterScoring \cup {"predict"}
AfterCat == AfterFit \cup {"fit"}
AfterLoop == AfterCat \cup {"cat"}

\* The samples of the loader in encounter order.
Encounter == Flatten(loader)

PrintsOf(log) == [i \in 1..Len(log) |-> <<log[i].op, IF log[i].op = "print"
                                                       THEN log[i].label
                                                       ELSE log[i].path>>]

ThreeLines == <<<<"print", "Dice score:">>, <<"print", "Average precision:">>,
                <<"print", "ROC AUC:">>>>

\* C1: while evaluate() runs, the batches fetched so far are 1..it, each once
\* and in loader order; once the loop is left they are all the loader's batches;
\* and once the batches are concatenated, embeds and labels both have one entry
\* per sample, entry i of each being the embedding and the label of the i-th
\* sample in encounter order.
C1_AlignedInOrder ==
    /\ (pc \in AfterLoop \cup {"loop"}) => fetched = Upto(it)
    /\ (pc \in AfterLoop) => fetched = Upto(Len(loader))
    /\ (pc \in AfterCat) =>
          /\ Len(embeds) = Len(Encounter)
          /\ Len(labels) = Len(Encounter)
          /\ \A i \in 1..Len(Encounter) :
                /\ embeds[i] = 3 * Encounter[i].data
                /\ labels[i] = Encounter[i].label

\* C1 witness: two batches, three samples, not all alike, concatenated.
C1_Witness ==
    /\ pc = "fit"
    /\ Len(loader) = 2
    /\ Len(labels) = 3
    /\ labels[1] # labels[3]
    /\ embeds[1] # embeds[2]

\* C2: in a call of evaluate() the estimator is fitted at most once, never
\* before the loader is exhausted, and exactly once by the time the test
\* embeddings are scored and in every call that gets past line 63, a second
\* call included; the fit is on model.embeds, and the scores are those of that
\* fit.
C2_FitOncePerCall ==
    /\ fits <= 1 /\ scored <= 1
    /\ (pc \in {"loop", "cat", "fit"}) => (fits = 0 /\ scored = 0)
    /\ (fits = 1) => fetched = Upto(Len(loader))
    /\ (scored = 1) => fits = 1
    /\ (pc = "predict") => (fits = 1 /\ scored = 0)
    /\ (pc \in AfterScoring) => (fits = 1 /\ scored = 1)
    /\ (pc = "returned") => (fits = 1 /\ scored = 1)
    /\ gde.fitted => gde.data = ModelEmbeds
    /\ (pc \in AfterScoring) =>
          scores = [i \in 1..Len(embeds) |-> 0 - KernelSum(ModelEmbeds, embeds[i])]

\* C2 witness: a second call, made on a fitted estimator, has returned.
C2_Witness ==
    /\ calls = 2
    /\ pc = "returned"
    /\ fits = 1
    /\ Len(Encounter) = 3

\* C3 as stated: once evaluate() has returned, nothing of the call is left: no
\* local and no fitted estimator.
C3_Original ==
    (pc = "returned") =>
        /\ labels = None /\ embeds = None /\ scores = None
        /\ dice_score = None /\ ap_score = None /\ roc = None
        /\ gde = [fitted |-> FALSE, data |-> <<>>]

\* C3 as amended: once evaluate() has returned, its locals (embeddings, labels,
\* scores, metrics) are gone, and the estimator, an attribute set in __init__,
\* stays fitted on model.embeds; the triple returned is that of this call's
\* loader and of a fit on model.embeds, whatever calls came before.
C3_EstimatorStaysFitted ==
    (pc = "returned") =>
        /\ labels = None /\ embeds = None /\ scores = None
        /\ dice_score = None /\ ap_score = None /\ roc = None
        /\ gde = [fitted |-> TRUE, data |-> ModelEmbeds]
        /\ LET e == [i \in 1..Len(Encounter) |-> 3 * Encounter[i].data]
               l == [i \in 1..Len(Encounter) |-> Encounter[i].label]
               s == [i \in 1..Len(e) |-> 0 - KernelSum(ModelEmbeds, e[i])]
           IN  ret.value = <<CalculateRocValue(s, l)[3], DiceMetric(s, l),
                             AveragePrecision(l, s)>>

\* C3 witness: evaluate() has returned and the estimator is still fitted.
C3_Witness ==
    /\ pc = "returned"
    /\ calls = 1
    /\ gde.fitted
    /\ labels = None

\* C4: when evaluate() reaches its return statement and after it has returned,
\* the I/O of the call is exactly the lines "Dice score:", "Average precision:"
\* and "ROC AUC:" in that order, followed by one write, of the ROC plot's file;
\* the triple handed back is (roc_auc, dice_score, ap_score), and until the
\* return statement nothing has been handed back.
C4_ThreeLinesThenWrite ==
    /\ (pc \in {"return", "returned"}) =>
          PrintsOf(io) = Append(ThreeLines,
                                <<"write", <<output_dir, <<"roc_", pathology, ".png">>>>>>)
    /\ (pc = "returned") =>
          /\ ret.kind = "return"
          /\ ret.value[1] = io[3].value
          /\ ret.value[2] = io[1].value
          /\ ret.value[3] = io[2].value
    /\ (pc \in AfterLoop \cup {"loop"}) => ret = None
    /\ (pc \in AfterLoop \cup {"loop"}) =>
          \A i \in 1..Len(io) : io[i].op = "write" => i = 4

\* C4 witness: a call on three samples has returned after its four effects.
C4_Witness ==
    /\ pc = "returned"
    /\ Len(io) = 4
    /\ io[4].op = "write"
    /\ Len(Encounter) = 3

\* What the call has done when it raises at a step: the fits, the scorings
\* and the I/O made by the steps before it.
DoneBefore(step) ==
    IF step \in {"model", "cat", "fit"} THEN <<0, 0, <<>>>>
    ELSE IF step = "predict" THEN <<1, 0, <<>>>>
    ELSE IF step = "dice" THEN <<1, 1, <<>>>>
    ELSE IF step = "ap" THEN <<1, 1, SubSeq(ThreeLines, 1, 1)>>
    ELSE IF step = "roc" THEN <<1, 1, SubSeq(ThreeLines, 1, 2)>>
    ELSE <<1, 1, ThreeLines>>

\* C7: a raise ends the call at the step that raised: the caller gets the
\* exception and no triple, the call has done what the steps before did and
\* nothing of the later ones, and nothing runs until the caller calls again.
\* An empty loader raises at the concatenation, with no fit, no line and no
\* write; a missing output directory raises at the save, after the three lines.
C7_FailFast ==
    /\ [](pc = "raised" =>
            /\ ret.kind = "raise"
            /\ <<fits, scored, PrintsOf(io)>> = DoneBefore(ret.at)
            /\ labels = None /\ scores = None /\ roc = None
            /\ (loader = <<>> => ret.at = "cat")
            /\ (ret.at = "cat" => (loader = <<>> /\ ret.error = "RuntimeError"))
            /\ (ret.at = "savefig" => ret.error = "FileNotFoundError"))
    /\ [][pc = "cat" /\ loader = <<>> => pc' = "raised"]_vars
    /\ [][pc = "plot_roc" /\ plotArgs.save_path \notin dirs =>
             (pc' = "raised" /\ files' = files)]_vars
    /\ [][pc = "raised" =>
             \/ (pc' = "raised" /\ UNCHANGED <<gde, figure, files, io, ret>>)
             \/ (pc' = "loop" /\ calls' = calls + 1)]_vars
    /\ [][pc' = "raised" /\ pc # "raised" => files' = files]_vars

\* C7 witness: the output directory is missing and the save has raised.
C7_Witness ==
    /\ pc = "raised"
    /\ ret.at = "savefig"
    /\ Len(io) = 3
    /\ output_dir \notin dirs

\* -------------------------------------------------------- claims on plot_roc
\* <output_dir>/roc_<pathology>.png
ExactPath(dir, pathology_) == <<dir, <<"roc_", pathology_, ".png">>>>

\* The image shows the curve and the title the running plot_roc call was given,
\* drawn last.
ShowsThisCall(image) ==
    /\ image.title = <<"ROC curve:", plotArgs.pathology>>
    /\ Len(image.lines) >= 2
    /\ image.lines[Len(image.lines) - 1].x = roc[1]
    /\ image.lines[Len(image.lines) - 1].y = roc[2]
    /\ image.lines[Len(image.lines) - 1].label = <<"AUC =", roc[3]>>
    /\ image.lines[Len(image.lines)].fmt = "r--"

\* C6 as stated: every plot_roc call, whatever output_dir and pathology it is
\* given, leaves a file at <output_dir>/roc_<pathology>.png holding its plot.
C6_Original ==
    [][pc = "plot_roc" =>
          LET path == ExactPath(plotArgs.save_path, plotArgs.pathology) IN
          /\ path \in DOMAIN files'
          /\ ShowsThisCall(files'[path].image)]_vars

\* C6 as amended: a plot_roc call whose output directory exists creates or
\* overwrites the file at exactly <output_dir>/roc_<pathology>.png with its
\* plot and touches no other file; one whose directory is missing raises and
\* leaves the files as they were.  So the files are those of the pairs
\* (output_dir, pathology) saved so far, one file per pair.
C6_FileAtExactPath ==
    /\ [](/\ DOMAIN files = {ExactPath(q[1], q[2]) : q \in plotted}
          /\ Cardinality(DOMAIN files) = Cardinality(plotted))
    /\ [][pc = "plot_roc" =>
            LET path == ExactPath(plotArgs.save_path, plotArgs.pathology) IN
            IF plotArgs.save_path \in dirs
            THEN /\ DOMAIN files' = DOMAIN files \cup {path}
                 /\ ShowsThisCall(files'[path].image)
                 /\ \A q \in DOMAIN files \ {path} : files'[q] = files[q]
                 /\ pc' # "raised"
            ELSE /\ files' = files
                 /\ pc' = "raised"]_vars

\* C6 witness: two calls with the same output_dir and pathology have both
\* saved, and one file is there.
C6_Witness ==
    /\ calls = 2
    /\ pc = "returned"
    /\ Cardinality(plotted) = 1
    /\ Cardinality(DOMAIN files) = 1
    /\ \A q \in DOMAIN files : Len(files[q].image.lines) = 2

\* C10 as stated: whenever no call is running the current figure is closed,
\* also after a call whose save failed, and every image written holds just one
\* call's curve and baseline.
C10_Original ==
    /\ Ended => figure = NoFigure
    /\ \A q \in DOMAIN files : Len(files[q].image.lines) = 2

====
